---- MODULE Spec2Model ----
(***************************************************************************)
(* Model of src/src/metadata.js: the Metadata record (hash-chained, signed *)
(* JSON documents stored under an address), its promise-chained operation  *)
(* queue and its read/write pipelines.                                     *)
(*                                                                         *)
(* Byte strings and wire strings are flat sequences of integer tokens.     *)
(* Hashing, signing and the text encodings are ideal (collision free)      *)
(* bracketed terms: sha256(b) is <<SHA>> \o b \o <<END>>, and so on, so    *)
(* that concatenation of buffers is concatenation of sequences.            *)
(***************************************************************************)
EXTENDS Integers, Sequences, FiniteSets, TLC

\* ------------------------------------------------------------------ bounds
MaxCalls == 3        \* calls of create/update/fetch made on the record
NumDocs == 2         \* distinct JSON documents (document 1 is JSON null)
MaxReads == 1        \* calls of the static Metadata.read

\* ------------------------------------------------------------------ tokens
END == 10            \* closes a bracketed term
GARBAGE == 11        \* one byte string that is not JSON text
SHA == 12
MAGIC == 13
B64 == 14
HEX == 15
SIG == 16
ENC == 17
OwnKey == 21         \* the key pair the record was constructed with
OtherKey == 22       \* a key pair the record's owner does not hold
EncKey == 31         \* the record's symmetric key
ForeignEncKey == 32  \* another symmetric key

Null == <<>>         \* null / undefined buffer or string (falsy)
Undefined == 0       \* this._value before any operation stored one
NullDoc == 1         \* the JavaScript value null (also JSON document null)
NoKey == 0           \* encKeyBuffer absent

Docs == 1..NumDocs
\* values a caller can pass: the documents, and one more in-memory form
\* (an object carrying an undefined-valued key) of document NumDocs
Inputs == 1..(NumDocs + 1)

Wrap(tag, b) == <<tag>> \o b \o <<END>>
IsWrapped(tag, s) == Len(s) >= 2 /\ s[1] = tag /\ s[Len(s)] = END
Unwrap(s) == SubSeq(s, 2, Len(s) - 1)

\* ---------------------------------------------------------- pure functions
\* JSON.stringify: undefined has no JSON text; both in-memory forms of a
\* document give the same text.  The text is one token.
JSONstringify(v) ==
  IF v = Undefined THEN Null
  ELSE IF v > NumDocs THEN <<NumDocs>> ELSE <<v>>

IsJSON(s) == Len(s) = 1 /\ s[1] \in Docs

\* JSON.parse of a JSON text (callers test IsJSON first: it throws otherwise)
JSONparse(s) == s[1]

toImmutable(v) == JSONparse(JSONstringify(v))

BufferToB64(buff) == IF buff = Null THEN Null ELSE Wrap(B64, buff)
B64ToBuffer(base64) == IF IsWrapped(B64, base64) THEN Unwrap(base64) ELSE Null
BufferToHex(buff) == IF buff = Null THEN Null ELSE Wrap(HEX, buff)
HexToBuffer(hex) == IF IsWrapped(HEX, hex) THEN Unwrap(hex) ELSE Null
StringToBuffer(str) == str
BufferToString(buff) == buff

sha256(b) == Wrap(SHA, b)
\* Bitcoin.message.magicHash
messageMagicHash(msg) == Wrap(MAGIC, msg)

\* WalletCrypto.encryptDataWithKey: base64 of iv ++ ciphertext
encrypt(key, iv, data) == BufferToB64(<<ENC, key, iv>> \o data \o <<END>>)

\* WalletCrypto.decryptDataWithKey: the plaintext under the right key,
\* bytes that are no JSON text otherwise
decrypt(key, data) ==
  LET c == B64ToBuffer(data)
  IN IF Len(c) >= 4 /\ c[1] = ENC /\ c[2] = key /\ c[Len(c)] = END
     THEN SubSeq(c, 4, Len(c) - 1)
     ELSE <<GARBAGE>>

getAddress(key) == key + 100

\* message with the two halves in the other order
message_hash_first(payload, prevMagic) ==
  IF prevMagic # Null
  THEN BufferToB64(sha256(payload) \o prevMagic)
  ELSE BufferToB64(payload)

\* Metadata.message
message(payload, prevMagic) ==
  IF prevMagic # Null
  THEN LET hash == sha256(payload)
           buff == prevMagic \o hash
       IN BufferToB64(buff)
  ELSE BufferToB64(payload)

\* magic that hashes the payload alone, whatever the prior hash
magic_unlinked(payload, prevMagic) ==
  messageMagicHash(message(payload, Null))

\* Metadata.magic
magic(payload, prevMagic) == messageMagicHash(message(payload, prevMagic))

\* Metadata.sign
sign(keyPair, msg) == <<SIG, keyPair>> \o msg \o <<END>>

\* Metadata.verify: the signature is one made over msg by the key of address
verify(address, signature, hash) ==
  /\ Len(signature) >= 3
  /\ signature[1] = SIG
  /\ getAddress(signature[2]) = address
  /\ signature = sign(signature[2], hash)

\* Metadata.computeSignature
computeSignature(key, payloadBuff, magicH) ==
  sign(key, message(payloadBuff, magicH))

\* verifyResponse without the throw on a failed verification
verifyResponse_unchecked(address, res) ==
  LET pB == IF res.payload # Null THEN B64ToBuffer(res.payload) ELSE Null
      mB == IF res.prev_magic_hash # Null
            THEN HexToBuffer(res.prev_magic_hash) ELSE Null
  IN [ok |-> pB # Null,
      compute_new_magic_hash |-> IF pB # Null THEN magic(pB, mB) ELSE Null]

\* Metadata.verifyResponse on a non-null response: whether it returns (ok)
\* or throws, and the compute_new_magic_hash it attaches when it returns
verifyResponse(address, res) ==
  LET sB == IF res.signature # Null THEN B64ToBuffer(res.signature) ELSE Null
      pB == IF res.payload # Null THEN B64ToBuffer(res.payload) ELSE Null
      mB == IF res.prev_magic_hash # Null
            THEN HexToBuffer(res.prev_magic_hash) ELSE Null
      verified == /\ pB # Null
                  /\ sB # Null
                  /\ verify(address, sB, message(pB, mB))
  IN [ok |-> verified,
      compute_new_magic_hash |-> IF verified THEN magic(pB, mB) ELSE Null]

\* Metadata.extractResponse on a non-null response: whether it returns (ok)
\* or throws, and the decoded document when it returns
extractResponse(encKey, res) ==
  LET text == IF encKey # NoKey
              THEN decrypt(encKey, res.payload)
              ELSE BufferToString(B64ToBuffer(res.payload))
  IN [ok |-> IsJSON(text),
      doc |-> IF IsJSON(text) THEN JSONparse(text) ELSE Undefined]

\* request without the 404 case of GET: 404 is an error like 500
request_404_rejects(method, r) ==
  IF r.neterr
  THEN [t |-> "reject", err |-> "METADATA_CONNECT_ERROR"]
  ELSE IF r.status >= 200 /\ r.status < 300
       THEN [t |-> "json", err |-> ""]
       ELSE [t |-> "reject", err |-> "RESPONSE_TEXT"]

\* request with the 404 case for every method, not only for GET
request_404_any_method(method, r) ==
  IF r.neterr
  THEN [t |-> "reject", err |-> "METADATA_CONNECT_ERROR"]
  ELSE IF r.status >= 200 /\ r.status < 300
       THEN [t |-> "json", err |-> ""]
       ELSE IF r.status = 404
            THEN [t |-> "null", err |-> ""]
            ELSE [t |-> "reject", err |-> "RESPONSE_TEXT"]

\* request without the status check: every HTTP answer is parsed as JSON
request_any_status(method, r) ==
  IF r.neterr
  THEN [t |-> "reject", err |-> "METADATA_CONNECT_ERROR"]
  ELSE [t |-> "json", err |-> ""]

\* Metadata.request: what the promise settles to for a method and for what
\* the network did (r.neterr: fetch() itself rejected; else an HTTP status)
request(method, r) ==
  IF r.neterr
  THEN [t |-> "reject", err |-> "METADATA_CONNECT_ERROR"]
  ELSE IF r.status >= 200 /\ r.status < 300
       THEN [t |-> "json", err |-> ""]
       ELSE IF method = "GET" /\ r.status = 404
            THEN [t |-> "null", err |-> ""]
            ELSE [t |-> "reject", err |-> "RESPONSE_TEXT"]

\* the fields of a GET response body the client reads
Envelope(payload, signature, prev) ==
  [payload |-> payload, signature |-> signature, prev_magic_hash |-> prev]

NoEnvelope == Envelope(Null, Null, Null)
\* what is remembered of how an operation's request ended
NoOutcome == [neterr |-> FALSE, ok2xx |-> FALSE, status |-> 0]
Outcome(r) == [neterr |-> r.neterr,
               ok2xx |-> ~r.neterr /\ r.status >= 200 /\ r.status < 300,
               status |-> r.status]

\* what the network does to a GET: an HTTP answer, or no answer at all
Statuses == {200, 404, 500}
NetOutcomes == [neterr : {FALSE}, status : Statuses]
                 \cup [neterr : {TRUE}, status : {0}]

\* what the network does to a PUT (404 stands for every status that is
\* not 2xx: request treats them alike for a PUT)
PutStatuses == {200, 404}
PutOutcomes == [neterr : {FALSE}, status : PutStatuses]
                 \cup [neterr : {TRUE}, status : {0}]

\* ------------------------------------------------------------------- state
VARIABLES
  magicHash,      \* this._magicHash (Null before the first round trip)
  value,          \* this._value
  typeId,         \* this._typeId
  typeIdArg,      \* the typeId argument the constructor was given
  encKeyBuffer,   \* this._encKeyBuffer
  sequence,       \* this._sequence: index of the operation whose settlement
                  \* it follows (0: the initial resolved promise)
  ops,            \* the functions handed to next() with the payload they close
                  \* over, and their promises
  calls,          \* the API calls made, in call order, with the value
                  \* update read from this._value when it was called
  puts,           \* the bodies handed to Metadata.PUT, in order
  started,        \* the order in which the queued functions began to run
  reads           \* the promises of the calls of Metadata.read, settled

vars == <<magicHash, value, typeId, typeIdArg, encKeyBuffer, sequence, ops,
          calls, puts, started, reads>>

NoTypeId == -2       \* constructor called without typeId
FirstIV == 41        \* initialisation vectors the record draws: 41, 42, ...
OtherIV == 40        \* an initialisation vector drawn by another device

\* constructor: a record of document type 2, built with or without an
\* encryption key
Init ==
  /\ typeIdArg = 2
  /\ typeId = IF typeIdArg = NoTypeId \/ typeIdArg = 0 THEN -1 ELSE typeIdArg
  /\ magicHash = Null
  /\ value = Undefined
  /\ encKeyBuffer \in {NoKey, EncKey}
  /\ sequence = 0
  /\ ops = <<>>
  /\ calls = <<>>
  /\ puts = <<>>
  /\ started = <<>>
  /\ reads = <<>>

address == getAddress(OwnKey)
existsOnServer == magicHash # Null

Settled(i) == ops[i].st \in {"resolved", "rejected"}
InFlight == {i \in 1..Len(ops) : ops[i].st = "inflight"}

\* next without the reassignment of this._sequence: every f is chained on
\* the promise the constructor made
next_unchained(kind, payload) ==
  /\ ops' = Append(ops, [kind |-> kind, arg |-> payload, pred |-> 0,
                         st |-> "queued", buf |-> Null, put |-> 0,
                         out |-> Undefined, err |-> "",
                         net |-> NoOutcome, res |-> NoEnvelope,
                         unverified |-> FALSE,
                         preMagic |-> Null, preValue |-> Undefined,
                         postMagic |-> Null, postValue |-> Undefined])
  /\ sequence' = sequence

\* Metadata.prototype.next: f runs once this._sequence has settled, and
\* this._sequence becomes the settlement (either way) of f's promise
next(kind, payload) ==
  /\ ops' = Append(ops, [kind |-> kind, arg |-> payload, pred |-> sequence,
                         st |-> "queued", buf |-> Null, put |-> 0,
                         out |-> Undefined, err |-> "",
                         net |-> NoOutcome, res |-> NoEnvelope,
                         unverified |-> FALSE,
                         preMagic |-> Null, preValue |-> Undefined,
                         postMagic |-> Null, postValue |-> Undefined])
  /\ sequence' = Len(ops) + 1

\* Metadata.prototype.create (the call; its queued function is RunCreate)
\* create that writes only a value that differs from the current one
create_skips_equal(payload) ==
  IF JSONstringify(payload) = JSONstringify(value)
  THEN next("noop", payload)
  ELSE next("put", toImmutable(payload))

create(payload) == next("put", toImmutable(payload))

\* update without the comparison
update_always_writes(payload) == create(payload)

\* Metadata.prototype.update (the call)
update(payload) ==
  IF JSONstringify(payload) = JSONstringify(value)
  THEN next("noop", payload)
  ELSE create(payload)

\* Metadata.prototype.fetch (the call; its queued function is RunFetch)
fetch == next("get", Undefined)

Called(name) ==
  /\ Len(calls) < MaxCalls
  /\ calls' = Append(calls, [name |-> name,
                             valueAtCall |-> IF name = "update" THEN value
                                             ELSE Undefined])
  /\ UNCHANGED <<magicHash, value, typeId, typeIdArg, encKeyBuffer, puts,
                 started, reads>>

Create == \E v \in Inputs : create(v) /\ Called("create")
Update == \E v \in Inputs : update(v) /\ Called("update")
Fetch == fetch /\ Called("fetch")

\* the queued function chained so that it runs only when the promise it
\* was chained on has been fulfilled
Runnable_after_success(i) ==
  /\ i \in 1..Len(ops)
  /\ ops[i].st = "queued"
  /\ IF ops[i].pred = 0 THEN TRUE ELSE ops[ops[i].pred].st = "resolved"

\* the queued function of operation i may run: it has not run yet and the
\* promise it was chained on has settled
Runnable(i) ==
  /\ i \in 1..Len(ops)
  /\ ops[i].st = "queued"
  /\ IF ops[i].pred = 0 THEN TRUE ELSE Settled(ops[i].pred)

Begin(i, st, buf, put, out) ==
  /\ ops' = [ops EXCEPT ![i].st = st, ![i].buf = buf, ![i].put = put,
                        ![i].out = out,
                        ![i].preMagic = magicHash, ![i].preValue = value,
                        ![i].postMagic = magicHash, ![i].postValue = value]
  /\ started' = Append(started, i)
  /\ UNCHANGED <<magicHash, value, typeId, typeIdArg, encKeyBuffer, sequence,
                 calls, reads>>

\* the function create() queued: encode, sign, PUT
RunCreate ==
  \E i \in 1..Len(ops) :
    /\ Runnable(i)
    /\ ops[i].kind = "put"
    /\ LET payload == ops[i].arg
           iv == FirstIV + Len(puts)   \* random, never drawn before
           encPayloadBuffer ==
             IF encKeyBuffer # NoKey
             THEN B64ToBuffer(encrypt(encKeyBuffer, iv, JSONstringify(payload)))
             ELSE StringToBuffer(JSONstringify(payload))
           signatureBuffer ==
             computeSignature(OwnKey, encPayloadBuffer, magicHash)
           body == [version |-> 1,
                    payload |-> BufferToB64(encPayloadBuffer),
                    signature |-> BufferToB64(signatureBuffer),
                    prev_magic_hash |-> IF magicHash # Null
                                        THEN BufferToHex(magicHash) ELSE Null,
                    type_id |-> typeId]
       IN /\ puts' = Append(puts, body)
          /\ Begin(i, "inflight", encPayloadBuffer, Len(puts) + 1, Undefined)

\* the function update() queued when the value was unchanged
RunNoop ==
  \E i \in 1..Len(ops) :
    /\ Runnable(i)
    /\ ops[i].kind = "noop"
    /\ Begin(i, "resolved", Null, 0, toImmutable(ops[i].arg))
    /\ UNCHANGED puts

\* the function fetch() queued: GET
RunFetch ==
  \E i \in 1..Len(ops) :
    /\ Runnable(i)
    /\ ops[i].kind = "get"
    /\ Begin(i, "inflight", Null, 0, Undefined)
    /\ UNCHANGED puts

\* ops[i].res keeps the response body when it passed verification;
\* ops[i].unverified tells that a body arrived and did not pass
Settle(i, st, out, err, net, res) ==
  /\ ops' = [ops EXCEPT ![i].st = st, ![i].out = out, ![i].err = err,
                        ![i].net = Outcome(net),
                        ![i].res = IF res # NoEnvelope
                                      /\ verify(address,
                                           B64ToBuffer(res.signature),
                                           message(B64ToBuffer(res.payload),
                                             HexToBuffer(res.prev_magic_hash)))
                                   THEN res ELSE NoEnvelope,
                        ![i].unverified =
                           /\ res # NoEnvelope
                           /\ ~verify(address, B64ToBuffer(res.signature),
                                      message(B64ToBuffer(res.payload),
                                              HexToBuffer(res.prev_magic_hash))),
                        ![i].postMagic = magicHash', ![i].postValue = value']
  /\ UNCHANGED <<typeId, typeIdArg, encKeyBuffer, sequence, calls, puts,
                 started, reads>>

\* the PUT of operation i settles and create's continuation runs
PutSettled ==
  \E i \in InFlight : \E r \in PutOutcomes :
    /\ ops[i].kind = "put"
    /\ LET q == request("PUT", r)
       IN IF q.t = "json"
          THEN /\ value' = ops[i].arg
               /\ magicHash' = magic(ops[i].buf, magicHash)
               /\ Settle(i, "resolved", ops[i].arg, "", r, NoEnvelope)
          ELSE /\ UNCHANGED <<value, magicHash>>
               /\ Settle(i, "rejected", Undefined, q.err, r, NoEnvelope)

\* ------------------------------------------------------------ the server
\* What a GET may be answered with.  The store is not trusted: it knows
\* every body that was PUT, it can replay any of them, splice their fields,
\* and it can hold envelopes written by other holders of the signing key.
Sent == {Envelope(puts[k].payload, puts[k].signature, puts[k].prev_magic_hash)
           : k \in 1..Len(puts)}

\* an envelope another Record built from the same signing key would PUT for
\* document d on top of chain hash prev, encrypting with key k (or not).
\* Other devices have written JSON null or another document on top of the
\* record's chain, or started a chain under another encryption key.
Written(d, prev, k) ==
  LET buf == IF k # NoKey
             THEN B64ToBuffer(encrypt(k, OtherIV, JSONstringify(d)))
             ELSE StringToBuffer(JSONstringify(d))
  IN Envelope(BufferToB64(buf),
              BufferToB64(computeSignature(OwnKey, buf, prev)),
              IF prev # Null THEN BufferToHex(prev) ELSE Null)

ByOtherDevice ==
  {Written(d, magicHash, encKeyBuffer) : d \in {NullDoc, NumDocs}}
    \cup {Written(NumDocs, Null, ForeignEncKey)}

\* fields of sent envelopes recombined
Spliced ==
  {Envelope(a.payload, b.signature, b.prev_magic_hash) : a, b \in Sent}
    \cup {Envelope(a.payload, a.signature, b.prev_magic_hash) : a, b \in Sent}
    \cup {Envelope(a.payload, a.signature, Null) : a \in Sent}

\* the signature of a chained write served with the signed bytes themselves
\* as the payload and without prev_magic_hash
Unchained ==
  {Envelope(BufferToB64(HexToBuffer(a.prev_magic_hash)
                          \o sha256(B64ToBuffer(a.payload))),
            a.signature, Null) : a \in {e \in Sent : e.prev_magic_hash # Null}}

\* an envelope signed by a key that is not the record's
Forged ==
  {Envelope(BufferToB64(StringToBuffer(JSONstringify(d))),
            BufferToB64(computeSignature(OtherKey,
                          StringToBuffer(JSONstringify(d)), Null)),
            Null) : d \in Docs}

Incomplete ==
  {Envelope(Null, a.signature, a.prev_magic_hash) : a \in Sent}
    \cup {Envelope(a.payload, Null, a.prev_magic_hash) : a \in Sent}

Responses == Sent \cup ByOtherDevice \cup Spliced \cup Unchained
               \cup Forged \cup Incomplete

\* fetch's catch with the error passed on instead of replaced
fetchCatch_passes_on(e) == e

\* the catch that ends fetch's chain: whatever was thrown, the promise
\* rejects with one error
fetchCatch(e) == "METADATA_FETCH_FAILED"

\* the GET of operation i settles, answered from the set R of bodies when
\* the answer is 2xx, and fetch's continuations run: verifyResponse,
\* saveMagicHash, extractResponse, saveValue, catch
GetSettledFrom(i, r, R) ==
  /\ ops[i].kind = "get"
  /\ LET q == request("GET", r)
     IN CASE q.t = "reject" ->
               /\ UNCHANGED <<value, magicHash>>
               /\ Settle(i, "rejected", Undefined, fetchCatch(q.err),
                         r, NoEnvelope)
          [] q.t = "null" ->
               /\ UNCHANGED <<value, magicHash>>
               /\ Settle(i, "resolved", NullDoc, "", r, NoEnvelope)
          [] q.t = "json" ->
               \E res \in R :
                 LET v == verifyResponse(address, res)
                     x == extractResponse(encKeyBuffer, res)
                 IN IF ~v.ok
                    THEN /\ UNCHANGED <<value, magicHash>>
                         /\ Settle(i, "rejected", Undefined,
                                   fetchCatch(
                                     "METADATA_SIGNATURE_VERIFICATION_ERROR"),
                                   r, res)
                    ELSE /\ magicHash' = v.compute_new_magic_hash
                         /\ IF ~x.ok
                            THEN /\ UNCHANGED value
                                 /\ Settle(i, "rejected", Undefined,
                                           fetchCatch("SyntaxError"), r, res)
                            ELSE /\ value' = IF x.doc = NullDoc THEN value
                                             ELSE toImmutable(x.doc)
                                 /\ Settle(i, "resolved", x.doc, "", r, res)

\* the GET is answered by a store that is not trusted
GetSettled ==
  \E i \in InFlight : \E r \in NetOutcomes : GetSettledFrom(i, r, Responses)

Next ==
  \/ Create
  \/ Update
  \/ Fetch
  \/ RunCreate
  \/ RunNoop
  \/ RunFetch
  \/ PutSettled
  \/ GetSettled

Spec == Init /\ [][Next]_vars

\* ------------------------------------------------------- an honest store
\* A store that keeps the body of every PUT it answers 2xx and nothing
\* else, that was empty when the record was constructed and that no other
\* Record writes to.  A PUT it does not acknowledge it has not applied.
Applied ==
  {k \in 1..Len(ops) : ops[k].kind = "put" /\ ops[k].net.ok2xx}

\* the envelopes the store can serve: the body of the last PUT applied
Stored ==
  {Envelope(puts[ops[k].put].payload, puts[ops[k].put].signature,
            puts[ops[k].put].prev_magic_hash)
     : k \in {a \in Applied : \A b \in Applied : b <= a}}

\* the GET is answered by the honest store: 404 while it holds nothing,
\* the envelope it holds otherwise; the request may still fail
HonestGetSettled ==
  \E i \in InFlight : \E r \in NetOutcomes :
    /\ ~r.neterr /\ r.status = 404 => Stored = {}
    /\ GetSettledFrom(i, r, Stored)

NextHonest ==
  \/ Create
  \/ Update
  \/ Fetch
  \/ RunCreate
  \/ RunNoop
  \/ RunFetch
  \/ PutSettled
  \/ HonestGetSettled

SpecHonest == Init /\ [][NextHonest]_vars

\* ------------------------------------------------------------- progress
\* The job queue runs every reaction of a settled promise, and every
\* request that was sent is eventually answered or fails.
Fairness ==
  /\ WF_vars(RunCreate)
  /\ WF_vars(RunNoop)
  /\ WF_vars(RunFetch)
  /\ WF_vars(PutSettled)
  /\ WF_vars(GetSettled)

\* Whether an operation runs and settles does not depend on the document
\* written, so progress is explored with calls that write one document.
CreateOne == create(NumDocs) /\ Called("create")
UpdateOne == update(NumDocs) /\ Called("update")

NextLive ==
  \/ CreateOne
  \/ UpdateOne
  \/ Fetch
  \/ RunCreate
  \/ RunNoop
  \/ RunFetch
  \/ PutSettled
  \/ GetSettled

SpecLive == Init /\ [][NextLive]_vars /\ Fairness

\* ------------------------------------------------------ records of any type
\* the typeId arguments a Record is constructed with: none, 0 (the type
\* reserved for the guid), another type
TypeIdArgs == {NoTypeId, 0, 2}

\* constructor called with any of these
InitTyped ==
  /\ typeIdArg \in TypeIdArgs
  /\ typeId = IF typeIdArg = NoTypeId \/ typeIdArg = 0 THEN -1 ELSE typeIdArg
  /\ magicHash = Null
  /\ value = Undefined
  /\ encKeyBuffer \in {NoKey, EncKey}
  /\ sequence = 0
  /\ ops = <<>>
  /\ calls = <<>>
  /\ puts = <<>>
  /\ started = <<>>
  /\ reads = <<>>

SpecTyped == InitTyped /\ [][NextLive]_vars

\* ------------------------------------------------------ the static read
\* Metadata.read(address) for the record's address: GET, then
\* extractResponse(null) on what request gave.  It is not queued on the
\* record and touches none of its fields; the promise it returns settles
\* with the document decoded from the payload taken as plain text.
\* (verified is not computed by read: it remembers whether the signature
\* of the body served would have verified for the address.)
read(r, res) ==
  LET q == request("GET", r)
      x == extractResponse(NoKey, res)
  IN CASE q.t = "reject" ->
            [st |-> "rejected", out |-> Undefined, err |-> q.err,
             body |-> FALSE, verified |-> FALSE]
       [] q.t = "null" ->
            [st |-> "resolved", out |-> NullDoc, err |-> "",
             body |-> FALSE, verified |-> FALSE]
       [] q.t = "json" ->
            IF x.ok
            THEN [st |-> "resolved", out |-> x.doc, err |-> "",
                  body |-> TRUE, verified |-> verifyResponse(address, res).ok]
            ELSE [st |-> "rejected", out |-> Undefined, err |-> "SyntaxError",
                  body |-> TRUE, verified |-> verifyResponse(address, res).ok]

Read ==
  /\ Len(reads) < MaxReads
  /\ \E r \in NetOutcomes : \E res \in Responses \cup {NoEnvelope} :
       /\ request("GET", r).t = "json" <=> res # NoEnvelope
       /\ reads' = Append(reads, read(r, res))
  /\ UNCHANGED <<magicHash, value, typeId, typeIdArg, encKeyBuffer, sequence,
                 ops, calls, puts, started>>

NextRead ==
  \/ CreateOne
  \/ UpdateOne
  \/ Fetch
  \/ RunCreate
  \/ RunNoop
  \/ RunFetch
  \/ PutSettled
  \/ GetSettled
  \/ Read

SpecRead == Init /\ [][NextRead]_vars

\* ----------------------------------------------------------------- claims
Started(i) == ops[i].st # "queued"
Resolved(i) == ops[i].st = "resolved"
Rejected(i) == ops[i].st = "rejected"
PutOf(i) == puts[ops[i].put]
OpIds == 1..Len(ops)

\* C1: two create calls made one right after the other: the second PUT is
\* issued only after the first create has settled, the two PUTs are two
\* consecutive, distinct requests, and when the first create succeeded the
\* second envelope's prev_magic_hash is the chain hash the record held after
\* the first create, which is not the prior hash of the first envelope.
C1_BackToBackCreates ==
  \A i \in OpIds : \A j \in OpIds :
    (j = i + 1 /\ calls[i].name = "create" /\ calls[j].name = "create"
       /\ Started(j))
    => /\ Settled(i)
       /\ ops[i].put # 0
       /\ ops[j].put = ops[i].put + 1
       /\ ops[j].preMagic = ops[i].postMagic
       /\ Resolved(i) =>
            /\ PutOf(j).prev_magic_hash = BufferToHex(ops[i].postMagic)
            /\ PutOf(j).prev_magic_hash # PutOf(i).prev_magic_hash
            /\ ops[i].postMagic = magic(ops[i].buf, ops[i].preMagic)

\* create was called a second time while the PUT of the first create is in
\* flight: the second create waits, no second PUT has been issued
C1_Witness ==
  \E i \in OpIds : \E j \in OpIds :
    /\ j = i + 1
    /\ calls[i].name = "create" /\ calls[j].name = "create"
    /\ ops[i].st = "inflight" /\ ops[j].st = "queued"
    /\ ops[i].put = 1
    /\ Len(puts) = 1

\* C2: at most one request of the record is in flight, and the queued
\* functions start in call order, each only after every earlier one settled.
C2_OneAtATime ==
  /\ Cardinality(InFlight) <= 1
  /\ \A i \in OpIds : Started(i) => \A k \in 1..(i - 1) : Settled(k)
  /\ started = [k \in 1..Len(started) |-> k]

\* one request in flight with two more operations queued behind it
C2_Witness ==
  \E i \in OpIds :
    /\ ops[i].st = "inflight"
    /\ i + 2 \in OpIds
    /\ ops[i + 1].st = "queued"
    /\ ops[i + 2].st = "queued"

HexOrNull(buff) == IF buff # Null THEN BufferToHex(buff) ELSE Null
Unchanged(i) == /\ ops[i].postMagic = ops[i].preMagic
                /\ ops[i].postValue = ops[i].preValue

\* the chain hash the history of settled operations folds to: a successful
\* create links its encoded payload to the hash so far, a successful fetch
\* of a body gives the linkage hash of that body, anything else gives the
\* hash so far
RECURSIVE Fold(_)
Fold(n) ==
  IF n = 0 THEN Null
  ELSE LET o == ops[n]
           prior == Fold(n - 1)
       IN IF o.kind = "put" /\ o.st = "resolved"
          THEN messageMagicHash(
                 IF prior # Null
                 THEN BufferToB64(prior \o sha256(o.buf))
                 ELSE BufferToB64(o.buf))
          ELSE IF o.kind = "get" /\ o.st = "resolved" /\ o.res # NoEnvelope
               THEN messageMagicHash(
                      IF o.res.prev_magic_hash # Null
                      THEN BufferToB64(HexToBuffer(o.res.prev_magic_hash)
                                         \o sha256(B64ToBuffer(o.res.payload)))
                      ELSE o.res.payload)
               ELSE prior

\* C3: chainHash is the fold of the history of successful creates and
\* successful non-empty fetches; failed operations and no-ops contribute
\* nothing.
C3_ChainHashIsFold == magicHash = Fold(Len(ops))

\* C4: a signature the key holder made for one (payload, prior hash) pair
\* verifies in the read path for that pair only: a response carrying it with
\* another payload or another prev_magic_hash fails verifyResponse, and no
\* fetch accepted such a response.
C4_SignatureBindsPair ==
  \A e \in Sent :
    /\ \A r \in Responses :
         (r.signature = e.signature
            /\ (r.payload # e.payload
                  \/ r.prev_magic_hash # e.prev_magic_hash))
         => ~verifyResponse(address, r).ok
    /\ \A i \in OpIds :
         (ops[i].res # NoEnvelope /\ ops[i].res.signature = e.signature)
         => /\ ops[i].res.payload = e.payload
            /\ ops[i].res.prev_magic_hash = e.prev_magic_hash

\* the message a signature was made over
SignedMessage(signature) ==
  LET sB == B64ToBuffer(signature) IN SubSeq(sB, 3, Len(sB) - 1)

\* C5 as stated: with a prior hash, the signed message is the base64 of
\* hash(payload) followed by the prior hash; without one, the base64 of the
\* payload; on the write path and on the read path.
C5_HashThenPrior ==
  /\ \A k \in 1..Len(puts) :
       SignedMessage(puts[k].signature) =
         IF puts[k].prev_magic_hash # Null
         THEN BufferToB64(sha256(B64ToBuffer(puts[k].payload))
                            \o HexToBuffer(puts[k].prev_magic_hash))
         ELSE puts[k].payload
  /\ \A i \in OpIds :
       ops[i].res # NoEnvelope =>
         SignedMessage(ops[i].res.signature) =
           IF ops[i].res.prev_magic_hash # Null
           THEN BufferToB64(sha256(B64ToBuffer(ops[i].res.payload))
                              \o HexToBuffer(ops[i].res.prev_magic_hash))
           ELSE ops[i].res.payload

\* C5 amended: with a prior hash, the signed message is the base64 of the
\* prior hash followed by hash(payload); without one, the base64 of the
\* payload; the bodies create sends are signed over it and the responses
\* a fetch resolves with a document from are signed over it.
C5_PriorThenHash ==
  /\ \A k \in 1..Len(puts) :
       SignedMessage(puts[k].signature) =
         IF puts[k].prev_magic_hash # Null
         THEN BufferToB64(HexToBuffer(puts[k].prev_magic_hash)
                            \o sha256(B64ToBuffer(puts[k].payload)))
         ELSE puts[k].payload
  /\ \A i \in OpIds :
       (ops[i].kind = "get" /\ Resolved(i) /\ ops[i].out # NullDoc) =>
         /\ B64ToBuffer(ops[i].res.signature)[2] = OwnKey
         /\ SignedMessage(ops[i].res.signature) =
              IF ops[i].res.prev_magic_hash # Null
              THEN BufferToB64(HexToBuffer(ops[i].res.prev_magic_hash)
                                 \o sha256(B64ToBuffer(ops[i].res.payload)))
              ELSE ops[i].res.payload

\* a chained envelope was sent, and a chained envelope was fetched
C5_Witness ==
  /\ \E k \in 1..Len(puts) : puts[k].prev_magic_hash # Null
  /\ \E i \in OpIds : /\ Resolved(i)
                      /\ ops[i].res # NoEnvelope
                      /\ ops[i].res.prev_magic_hash # Null

\* C6: a fetch whose response body does not carry a signature of the
\* record's address over the linkage message of its payload and
\* prev_magic_hash rejects, and chainHash and value are what they were
\* before the fetch.
C6_BadSignatureRejected ==
  \A i \in OpIds :
    (ops[i].kind = "get" /\ Settled(i) /\ ops[i].unverified)
    => /\ Rejected(i)
       /\ Unchanged(i)

\* one such fetch on an Unestablished record, one on an Established record
C6_Witness ==
  \E i \in OpIds : \E j \in OpIds :
    /\ ops[i].unverified /\ Rejected(i) /\ ops[i].preMagic = Null
    /\ ops[j].unverified /\ Rejected(j) /\ ops[j].preMagic # Null
    /\ ops[j].preValue # Undefined

\* C7: a fetch that rejects, whatever the stage that failed, leaves
\* chainHash and value as they were, and the operation queued next starts
\* from the chainHash and value of before the fetch.
C7_FailedFetchLeavesState ==
  \A i \in OpIds :
    (ops[i].kind = "get" /\ Rejected(i))
    => /\ Unchanged(i)
       /\ (i + 1 \in OpIds /\ Started(i + 1))
            => /\ ops[i + 1].preMagic = ops[i].preMagic
               /\ ops[i + 1].preValue = ops[i].preValue

PutFailed(i) ==
  /\ ops[i].kind = "put"
  /\ Settled(i)
  /\ ~ops[i].net.ok2xx

\* C8: when the PUT of a create fails (no connection, or a status that is
\* not 2xx) the promise rejects with that error, value and chainHash are
\* unchanged, and the next create (no operation in between having changed
\* the chain) sends the chain hash of before the failed create as
\* prev_magic_hash.
C8_FailedPutLeavesState ==
  \A i \in OpIds :
    PutFailed(i)
    => /\ Rejected(i)
       /\ ops[i].err = IF ops[i].net.neterr THEN "METADATA_CONNECT_ERROR"
                       ELSE "RESPONSE_TEXT"
       /\ Unchanged(i)
       /\ \A j \in OpIds :
            (j > i /\ ops[j].kind = "put" /\ Started(j)
               /\ \A k \in (i + 1)..(j - 1) : Unchanged(k))
            => PutOf(j).prev_magic_hash = HexOrNull(ops[i].preMagic)

\* create(a) succeeded, create(b) was rejected, value still reads a, and a
\* third create has sent the chain hash the first one left
C8_Witness ==
  /\ Len(ops) = 3
  /\ ops[1].kind = "put" /\ Resolved(1)
  /\ PutFailed(2) /\ ops[2].arg # ops[1].arg
  /\ ops[3].kind = "put" /\ Started(3)
  /\ value = ops[1].arg
  /\ PutOf(3).prev_magic_hash = BufferToHex(ops[1].postMagic)

SameJSON(v, w) == JSONstringify(v) = JSONstringify(w)

\* C9: update(v) with v equal by JSON text to the value the record holds at
\* the call issues no PUT (and so no signature), runs only after every
\* operation queued before it has settled, leaves chainHash and value as
\* they are, and resolves with v.
C9_EqualUpdateIsNoop ==
  \A j \in OpIds :
    (calls[j].name = "update" /\ SameJSON(ops[j].arg, calls[j].valueAtCall))
    => /\ ops[j].put = 0
       /\ \A k \in 1..Len(puts) : \E i \in OpIds \ {j} : ops[i].put = k
       /\ Started(j) =>
            /\ \A k \in 1..(j - 1) : Settled(k)
            /\ Resolved(j)
            /\ SameJSON(ops[j].out, ops[j].arg)
            /\ Unchanged(j)

\* such an update has resolved behind an operation that was still pending
\* when update was called
C9_Witness ==
  \E j \in OpIds :
    /\ calls[j].name = "update"
    /\ SameJSON(ops[j].arg, calls[j].valueAtCall)
    /\ Resolved(j)
    /\ ops[j].preValue # calls[j].valueAtCall

\* C10: update decides between no-op and write against the value the
\* record holds when every operation queued before it has completed.
C10_UpdateDecidesInQueue ==
  \A j \in OpIds :
    (calls[j].name = "update" /\ Started(j))
    => (ops[j].put = 0 <=> SameJSON(ops[j].arg, ops[j].preValue))

\* ------------------------------------------------------------------ C11
\* the body create(v) PUTs when its function runs on chain hash prev:
\* v encoded (and encrypted when the record has a key), signed over the
\* encoded bytes and prev, with prev in hex and the record's type
IsCreateEnvelope(body, buf, v, prev) ==
  /\ body.version = 1
  /\ body.payload = BufferToB64(buf)
  /\ extractResponse(encKeyBuffer, body) = [ok |-> TRUE, doc |-> v]
  /\ body.signature = BufferToB64(sign(OwnKey, message(buf, prev)))
  /\ body.prev_magic_hash = HexOrNull(prev)
  /\ body.type_id = typeId

\* operation i has sent one PUT of its own, the one create builds for its
\* argument, and when the PUT succeeded the value is the argument and the
\* chain hash is the one of the bytes sent on top of the hash before.
\* (The body is looked at while i is the operation that started last: a
\* body that was sent is not rewritten.)
WritesLikeCreate(i) ==
  /\ ops[i].kind = "put"
  /\ Started(i) =>
       /\ ops[i].put \in 1..Len(puts)
       /\ \A j \in OpIds \ {i} : ops[j].put # ops[i].put
       /\ i = started[Len(started)] =>
            IsCreateEnvelope(PutOf(i), ops[i].buf, ops[i].arg,
                             ops[i].preMagic)
  /\ Resolved(i) =>
       /\ ops[i].postValue = ops[i].arg
       /\ ops[i].postMagic =
            messageMagicHash(message(ops[i].buf, ops[i].preMagic))

\* C11: every create(v) sends exactly one PUT when its function runs, also
\* when v is the value the record holds; every update(v) called with v
\* different from the value the record holds sends exactly one PUT, built
\* as create(v) builds it and with create(v)'s effect on value and chain
\* hash.  No PUT is sent by anything else.
C11_EveryWriteOnePut ==
  /\ \A i \in OpIds :
       /\ calls[i].name = "create" => WritesLikeCreate(i)
       /\ (calls[i].name = "update"
             /\ JSONstringify(ops[i].arg) # JSONstringify(calls[i].valueAtCall))
            => WritesLikeCreate(i)
  /\ Len(puts) = Cardinality({i \in OpIds : ops[i].put # 0})

\* a create of the value the record already held has sent its PUT and
\* succeeded, and so has an update to a different value
C11_Witness ==
  /\ \E i \in OpIds :
       /\ calls[i].name = "create" /\ Resolved(i)
       /\ ops[i].preValue = ops[i].arg /\ ops[i].put # 0
  /\ \E i \in OpIds :
       /\ calls[i].name = "update" /\ Resolved(i) /\ ops[i].put # 0
       /\ ops[i].preValue # Undefined /\ ops[i].postValue # ops[i].preValue

\* ------------------------------------------------------------------ C12
\* the GET of fetch i was answered with status 404
AnsweredNotFound(i) ==
  /\ ops[i].kind = "get" /\ Settled(i)
  /\ ~ops[i].net.neterr /\ ops[i].net.status = 404

\* C12: a fetch whose GET is answered 404 resolves with null and does not
\* reject; it leaves value and chain hash as they were, so a record that
\* had no chain hash still has none and existsOnServer stays false.
C12_NotFoundResolvesNull ==
  \A i \in OpIds :
    AnsweredNotFound(i) =>
      /\ Resolved(i) /\ ops[i].out = NullDoc /\ ops[i].err = ""
      /\ Unchanged(i)
      /\ ops[i].preMagic = Null => ops[i].postMagic = Null
      /\ (ops[i].preMagic = Null /\ i = started[Len(started)])
           => ~existsOnServer

\* a record that never wrote or read anything has fetched and was answered
\* 404, and a record that holds a value and a chain hash has
C12_Witness ==
  /\ \E i \in OpIds :
       AnsweredNotFound(i) /\ ops[i].preMagic = Null
         /\ ops[i].preValue = Undefined
  /\ \E i \in OpIds :
       AnsweredNotFound(i) /\ ops[i].preMagic # Null
         /\ ops[i].preValue # Undefined

\* ------------------------------------------------------------------ C13
\* operation i took the record from no chain hash to a chain hash
Established(i) == ops[i].preMagic = Null /\ ops[i].postMagic # Null

\* C13: the record starts with no chain hash and existsOnServer false;
\* existsOnServer is true exactly when there is a chain hash; only a create
\* that succeeded or a fetch that succeeded with a document gives the
\* record its first chain hash; no operation takes the chain hash away.
C13_EstablishedOnlyBySuccess ==
  /\ started = <<>> => magicHash = Null /\ ~existsOnServer
  /\ existsOnServer <=> magicHash # Null
  /\ \A i \in OpIds :
       Started(i) =>
         /\ Established(i) =>
              /\ Resolved(i)
              /\ \/ ops[i].kind = "put"
                 \/ ops[i].kind = "get" /\ ops[i].res # NoEnvelope
         /\ ops[i].preMagic # Null => ops[i].postMagic # Null
  /\ (started # <<>> /\ ops[started[Len(started)]].postMagic # Null)
       => magicHash # Null

\* ------------------------------------------------------------------ C14
\* why fetch i failed: no answer, an error status, a body whose signature
\* does not verify, a verified body that does not decode
ConnectFailed(i) == ops[i].net.neterr
StatusFailed(i) ==
  ~ops[i].net.neterr /\ ~ops[i].net.ok2xx /\ ops[i].net.status # 404
SignatureFailed(i) == ops[i].unverified
DecodeFailed(i) ==
  ops[i].res # NoEnvelope /\ ~extractResponse(encKeyBuffer, ops[i].res).ok

FetchFailure(i) ==
  /\ ops[i].kind = "get" /\ Settled(i)
  /\ ConnectFailed(i) \/ StatusFailed(i) \/ SignatureFailed(i)
       \/ DecodeFailed(i)

\* C14: a fetch that failed, for whichever of the four causes, has rejected
\* with METADATA_FETCH_FAILED and has not resolved; a fetch never rejects
\* with anything else.
C14_UniformFetchError ==
  \A i \in OpIds :
    /\ FetchFailure(i) =>
         /\ Rejected(i) /\ ops[i].err = "METADATA_FETCH_FAILED"
         /\ ops[i].out = Undefined
    /\ (ops[i].kind = "get" /\ Rejected(i))
         => ops[i].err = "METADATA_FETCH_FAILED"

\* three fetches have failed: one at the transport, one at the signature,
\* one at decoding
C14_Witness ==
  /\ \E i \in OpIds :
       FetchFailure(i) /\ (ConnectFailed(i) \/ StatusFailed(i))
  /\ \E i \in OpIds : FetchFailure(i) /\ SignatureFailed(i)
  /\ \E i \in OpIds : FetchFailure(i) /\ DecodeFailed(i)

\* ------------------------------------------------------------------ C15
\* the signed envelope res is at the chain position h or directly on top of
\* it (the chain hash it gives is h, or its prev_magic_hash is h)
DescendsFrom(res, h) ==
  \/ verifyResponse(address, res).compute_new_magic_hash = h
  \/ res.prev_magic_hash = BufferToHex(h)

\* fetch i, run on a record that held a chain hash, was answered with an
\* envelope signed by the record's key that is neither at nor on top of
\* that chain hash: an earlier write replayed, or a fork
RolledBack(i) ==
  /\ ops[i].kind = "get" /\ Settled(i)
  /\ ops[i].preMagic # Null
  /\ ops[i].res # NoEnvelope
  /\ ~DescendsFrom(ops[i].res, ops[i].preMagic)

\* C15: a fetch that is answered with a signed envelope of an earlier
\* position of the chain, or of a fork, is rejected and leaves chain hash
\* and value where they were.
C15_RollbackDetected ==
  \A i \in OpIds : RolledBack(i) => Rejected(i) /\ Unchanged(i)

\* ------------------------------------------------------------------ C16
\* fetch i was answered with the envelope a Record with the record's keys
\* stored by a successful create of document d on top of chain hash prev:
\* the record's own earlier create, or one of another device
FetchedCreateOf(i, d, prev) ==
  /\ ops[i].kind = "get" /\ Settled(i)
  /\ \/ \E k \in OpIds :
          /\ ops[k].kind = "put" /\ Resolved(k) /\ k < i
          /\ d = ops[k].arg /\ prev = ops[k].preMagic
          /\ ops[i].res = Envelope(PutOf(k).payload, PutOf(k).signature,
                                   PutOf(k).prev_magic_hash)
     \/ /\ prev = ops[i].preMagic
        /\ ops[i].res = Written(d, prev, encKeyBuffer)

\* the chain hash a Record holds after its create of the bytes of envelope
\* res on top of prev has succeeded
HashAfterCreate(res, prev) ==
  messageMagicHash(message(B64ToBuffer(res.payload), prev))

\* C16: every envelope create PUTs passes verifyResponse for the record's
\* address; a fetch answered with the envelope stored by a successful
\* create of a Record with the same keys resolves and leaves the record
\* with the writer's chain hash, recomputed from payload and
\* prev_magic_hash, and with the writer's value; the create that runs next
\* sends that chain hash as prev_magic_hash.
C16_RoundTrip ==
  /\ \A k \in 1..Len(puts) :
       verifyResponse(address,
         Envelope(puts[k].payload, puts[k].signature,
                  puts[k].prev_magic_hash)).ok
  /\ \A i \in OpIds : \A d \in Docs : \A prev \in {ops[j].preMagic : j \in OpIds} :
       FetchedCreateOf(i, d, prev) =>
         /\ Resolved(i)
         /\ ops[i].postMagic = HashAfterCreate(ops[i].res, prev)
         /\ ops[i].postValue = d
         /\ \A n \in 1..(Len(started) - 1) :
              (started[n] = i /\ ops[started[n + 1]].kind = "put")
                => PutOf(started[n + 1]).prev_magic_hash
                     = BufferToHex(ops[i].postMagic)

\* ------------------------------------------------------------------ C17
\* the linkage hash of a stored envelope: the hash of its payload bytes
\* chained on the prior hash it names
LinkageHash(e) ==
  messageMagicHash(message(B64ToBuffer(e.payload),
                           IF e.prev_magic_hash # Null
                           THEN HexToBuffer(e.prev_magic_hash) ELSE Null))

\* C17: with an honest store that started empty and a single writer,
\* whenever no operation is in flight the chain hash is the linkage hash of
\* the envelope the store holds, and null while it holds none; a write
\* that succeeded derived the chain hash from the bytes it sent and the
\* chain hash held before, a write that failed kept the chain hash.
C17_ChainHashMatchesStore ==
  /\ InFlight = {} =>
       /\ Stored = {} => magicHash = Null
       /\ \A e \in Stored : magicHash = LinkageHash(e)
  /\ \A i \in OpIds :
       (ops[i].kind = "put" /\ Settled(i)) =>
         ops[i].postMagic =
           IF ops[i].net.ok2xx
           THEN messageMagicHash(message(ops[i].buf, ops[i].preMagic))
           ELSE ops[i].preMagic

\* nothing is in flight after a write the store applied, a later write it
\* refused and a fetch it answered with the envelope it holds
C17_Witness ==
  /\ InFlight = {}
  /\ \E i, j, k \in OpIds :
       /\ i < j /\ i < k
       /\ ops[i].kind = "put" /\ Resolved(i)
       /\ ops[j].kind = "put" /\ Rejected(j)
       /\ ops[k].kind = "get" /\ Resolved(k) /\ ops[k].res \in Stored

\* ------------------------------------------------------------------ C18
\* C18: when every request that is sent eventually settles, every call of
\* create, update or fetch eventually settles, whether or not the
\* operations queued before it were rejected.
C18_EveryCallSettles ==
  \A i \in 1..MaxCalls :
    (i \in OpIds) ~> (i \in OpIds /\ Settled(i))

\* an operation has run and settled behind one that was rejected
C18_Witness ==
  \E i, j \in OpIds :
    /\ ops[j].pred = i /\ Rejected(i)
    /\ Settled(j) /\ ops[j].kind # "noop"

\* ------------------------------------------------------------------ C19
\* HTTP statuses at and around the edges of the classes request tells
\* apart
EdgeStatuses == {100, 199, 200, 201, 204, 299, 300, 304, 400, 403, 404,
                 405, 500, 503, 599}
Methods == {"GET", "PUT"}

\* request on every method and every edge status, with and without a
\* failure of the network
RequestMapsStatuses ==
  \A m \in Methods : \A st \in EdgeStatuses :
    /\ request(m, [neterr |-> TRUE, status |-> st])
         = [t |-> "reject", err |-> "METADATA_CONNECT_ERROR"]
    /\ request(m, [neterr |-> FALSE, status |-> st])
         = IF st \in 200..299
           THEN [t |-> "json", err |-> ""]
           ELSE IF m = "GET" /\ st = 404
                THEN [t |-> "null", err |-> ""]
                ELSE [t |-> "reject", err |-> "RESPONSE_TEXT"]

\* C19: for every method and status, request gives null without error for
\* 404 on GET, the parsed body for 2xx, a rejection with the text of the
\* response for every other status (404 on PUT among them), and a
\* rejection METADATA_CONNECT_ERROR, whatever a status would say, when the
\* network failed.  The operations that have settled ended accordingly.
C19_StatusMapping ==
  /\ RequestMapsStatuses
  /\ \A i \in OpIds :
       (ops[i].kind = "put" /\ Settled(i)) =>
         /\ ops[i].net.neterr =>
              Rejected(i) /\ ops[i].err = "METADATA_CONNECT_ERROR"
         /\ ops[i].net.ok2xx => Resolved(i)
         /\ (~ops[i].net.neterr /\ ~ops[i].net.ok2xx) =>
              Rejected(i) /\ ops[i].err = "RESPONSE_TEXT"
  /\ \A i \in OpIds :
       (ops[i].kind = "get" /\ Settled(i)) =>
         /\ ops[i].net.neterr => Rejected(i)
         /\ ops[i].net.ok2xx =>
              ops[i].res # NoEnvelope \/ ops[i].unverified
         /\ (~ops[i].net.neterr /\ ~ops[i].net.ok2xx) =>
              IF ops[i].net.status = 404
              THEN Resolved(i) /\ ops[i].out = NullDoc
              ELSE Rejected(i)

\* a PUT was answered 404, a GET was answered 404 and a request got no
\* answer at all
C19_Witness ==
  /\ \E i \in OpIds :
       /\ ops[i].kind = "put" /\ Settled(i)
       /\ ~ops[i].net.neterr /\ ops[i].net.status = 404
  /\ \E i \in OpIds : AnsweredNotFound(i)
  /\ \E i \in OpIds : Settled(i) /\ ops[i].net.neterr

\* ------------------------------------------------------------------ C20
\* C20: every envelope create PUTs for a record constructed with a typeId
\* that is a non-negative integer, 0 included, carries that typeId as
\* type_id; type_id is -1 only when the record was constructed without a
\* typeId.
C20_TypeIdCarried ==
  \A k \in 1..Len(puts) :
    /\ typeIdArg # NoTypeId => puts[k].type_id = typeIdArg
    /\ puts[k].type_id = -1 => typeIdArg = NoTypeId

\* ------------------------------------------------------------------ C21
\* a call of Metadata.read gave back what it decoded from a body
ReadDecoded(k) == reads[k].st = "resolved" /\ reads[k].body

\* no read gives back content decoded from a body whose signature was not
\* verified
ReadVerifiesFirst == \A k \in 1..Len(reads) : ReadDecoded(k) => reads[k].verified

\* a fetch that resolved on a body resolved with the document decoded from
\* a body whose signature verified for the record's address
FetchVerifiesFirst ==
  \A i \in OpIds :
    (ops[i].kind = "get" /\ Resolved(i) /\ ops[i].net.ok2xx) =>
      /\ ~ops[i].unverified /\ ops[i].res # NoEnvelope
      /\ verifyResponse(address, ops[i].res).ok
      /\ ops[i].out = extractResponse(encKeyBuffer, ops[i].res).doc

\* a fetch has stored something only after its GET was answered with a
\* body, the body was verified and the payload was decoded
FetchStoresLast ==
  \A i \in OpIds :
    (ops[i].kind = "get" /\ Started(i) /\ ~Unchanged(i)) =>
      /\ Settled(i) /\ ops[i].net.ok2xx
      /\ ops[i].res # NoEnvelope /\ verifyResponse(address, ops[i].res).ok
      /\ extractResponse(encKeyBuffer, ops[i].res).ok

\* C21: neither fetch nor the static Metadata.read returns or stores
\* content decoded from a server response that is not null unless the
\* signature of the response was verified first; fetch stores only after
\* GET, verification and decoding, in that order.
C21_VerifyThenDecode ==
  /\ ReadVerifiesFirst
  /\ FetchVerifiesFirst
  /\ FetchStoresLast

====
